---- MODULE Spec2Model ----
(***************************************************************************)
(* Model of the decision engine of smartcloth (src/tools.py):              *)
(*   Calc_RealFeel   - perceived temperature from temperature, wind speed  *)
(*                     and humidity;                                       *)
(*   Match_Clothing  - rule chain from perceived temperature and the daily *)
(*                     weather record to a clothing recommendation.        *)
(*                                                                         *)
(* Numbers.  Temperatures handed to Calc_RealFeel and the perceived        *)
(* temperature are kept in tenths of a degree (the code rounds its result  *)
(* to one decimal), wind speed in tenths of km/h (Get_Weather rounds it to *)
(* one decimal).  tempMax, humidity, wind level and precipitation are the  *)
(* integers Get_Weather produces with round().                             *)
(*                                                                         *)
(* Text.  A Python string is a sequence of tokens; the tokens are cut so   *)
(* that every term the code searches for is a token of its own wherever   *)
(* it occurs, so `term in s` is the membership of the token.              *)
(* Concatenation is \o, join interleaves the delimiter.  An f-string       *)
(* clause is <<format, arg1, arg2>>.                                       *)
(***************************************************************************)
EXTENDS Integers, Sequences, FiniteSets, TLC

VARIABLES
    pc,                             \* position inside Match_Clothing
    real_feel, temp, humidity, wind, rain_chance,   \* its arguments
    base, accessories, extra_items, footwear, logic_parts,
    wind_protection_added_to_base,
    logic_desc,
    result,                         \* <<>> or <<the returned dict>>
    hashSeed,                       \* the interpreter's string-hash seed
    prev,                           \* result of the previous call, same arguments
    cr_pc, temperature, wind_speed_kmh, cr_humidity,  \* Calc_RealFeel
    cr_real_feel, wet_cold_factor, cr_result

mcVars == <<pc, real_feel, temp, humidity, wind, rain_chance, base, accessories,
            extra_items, footwear, logic_parts, wind_protection_added_to_base,
            logic_desc, result, hashSeed, prev>>
crVars == <<cr_pc, temperature, wind_speed_kmh, cr_humidity, cr_real_feel,
            wet_cold_factor, cr_result>>
vars == <<mcVars, crVars>>

----------------------------------------------------------------------------
(* Thresholds, src/tools.py:17-39 *)
TEMP_VERY_COLD == 0
TEMP_MILD == 15
TEMP_WARM == 25
TEMP_HOT == 27
TEMP_VERY_HOT == 30
HUMIDITY_HIGH == 70
HUMIDITY_VERY_HIGH == 80
HUMIDITY_EXTREME == 90
WIND_STRONG == 4
WIND_VERY_STRONG == 7
RAIN_CHANCE_MODERATE == 20
RAIN_CHANCE_HIGH == 40
RAIN_CHANCE_VERY_HIGH == 50
RAIN_CHANCE_EXTREME == 70

(* Number of distinct string-hash seeds an interpreter may start with. *)
NumSeeds == 2

----------------------------------------------------------------------------
(* Input domains: every threshold of the rule chain with both its sides. *)
RealFeels == {-1, 0, 149, 150, 249, 250}          \* tenths of a degree
TempMaxs == {4, 5, 8, 11, 12, 20, 21, 25, 26, 27, 28, 30, 31}
Humidities == {70, 71, 80, 81, 88, 90, 91}
WindLevels == {3, 4, 6, 7, 8}
RainChances == {19, 20, 40, 41, 49, 50, 60, 70, 71}
Seeds == 0 .. (NumSeeds - 1)

----------------------------------------------------------------------------
(* Text helpers *)

\* `term in s` / s.find(term) != -1 on a tokenised string
Contains(s, term) == \E i \in DOMAIN s : s[i] = term

\* `x in list`
InList(list, x) == \E i \in DOMAIN list : list[i] = x

RECURSIVE Join(_, _)
\* delim.join(list): the elements with the delimiter between neighbours
Join(list, delim) ==
    IF Len(list) = 0 THEN <<>>
    ELSE IF Len(list) = 1 THEN <<list[1]>>
    ELSE <<list[1], delim>> \o Join(Tail(list), delim)

RECURSIVE Dedup(_)
\* the distinct elements of a list (what set(list) holds), by first occurrence
Dedup(list) ==
    IF list = <<>> THEN <<>>
    ELSE LET rest == Dedup(SubSeq(list, 1, Len(list) - 1))
             x == list[Len(list)]
         IN IF InList(rest, x) THEN rest ELSE Append(rest, x)

Remove(s, i) == SubSeq(s, 1, i - 1) \o SubSeq(s, i + 1, Len(s))

RECURSIVE Permute(_, _)
\* the n-th arrangement of s (factorial number system)
Permute(s, n) ==
    IF s = <<>> THEN <<>>
    ELSE LET i == (n % Len(s)) + 1
         IN <<s[i]>> \o Permute(Remove(s, i), n \div Len(s))

\* list(set(list)): iteration order of a set of str follows the hashes of its
\* members, which the interpreter's hash seed decides
ListOfSet(list, seed) == Permute(Dedup(list), seed)

Clause(fmt, a, b) == <<fmt, a, b>>
Lit(text) == <<text, 0, 0>>

----------------------------------------------------------------------------
(* Strings of Match_Clothing.  The module is ASCII: every Chinese literal  *)
(* of the source is written as an ASCII rendering, the original in the     *)
(* comment beside it.  The searched terms are the tokens                   *)
(*   "windproof" = 防风, "down coat" = 羽绒服, "jacket" = 夹克, "damp-proof" = 防潮. *)
DEFAULT_FOOTWEAR == "regular athletic shoes"                  \* 常规运动鞋
SANDALS == "breathable sandals or mesh athletic shoes"         \* 透气凉鞋或网面运动鞋
WATERPROOF_BOOTS == "waterproof boots or water-repellent athletic shoes"  \* 防水靴或防拨水运动鞋
RAIN_SHOES == "professional non-slip rain shoes or spare socks"  \* 专业防滑雨鞋或备用袜子
NONSLIP_SHOES == "non-slip athletic shoes (waterproofing advised)"  \* 防滑运动鞋（建议防水处理）
WARM_BOOTS == "insulated non-slip boots"                       \* 保暖防滑靴
BREATHABLE_SHOES == "breathable athletic shoes or sandals"     \* 透气运动鞋或凉鞋

\* 保暖层（长袖内衣+毛衣）+ 加厚防风羽绒服
BASE_VERY_COLD == <<"thermal layer (long underwear+sweater)+ thick ", "windproof", "down coat">>
\* 长袖衬衫/针织衫 + 防风夹克或呢大衣
BASE_COOL == <<"long-sleeve shirt/knitwear + ", "windproof", "jacket", " or wool coat">>
\* 短袖/薄长袖 + 轻便外套（如薄开衫）
BASE_MILD == <<"short sleeve/thin long sleeve + light outer layer (thin cardigan)">>
\* 吸湿排汗短袖 + 宽松短裤/短裙
BASE_WARM == <<"moisture-wicking short sleeve + loose shorts/skirt">>
\* 【清爽模式】极薄透气面料（亚麻/速干材质）
BASE_HEAT_HUMID == <<"[fresh mode] ultra-thin breathable fabric (linen/quick-dry)">>
\* "防风拨水外套 + "
PREFIX_COLD_WET == <<"windproof", " water-repellent coat + ">>
\* "强风加固型外套（冲锋衣/防风夹克） + "
PREFIX_STRONG_WIND == <<"strong-wind reinforced coat (shell/", "windproof", "jacket", ") + ">>
\* "防风层（冲锋衣/风衣） + "
PREFIX_WIND == <<"windproof", " layer (shell/trench coat) + ">>

SCARF == "scarf"                                               \* 围巾
GLOVES == "gloves"                                             \* 手套
SUNSCREEN == "sunscreen"                                       \* 防晒霜
SUN_HAT == "sun hat"                                           \* 遮阳帽
SUNGLASSES == "sunglasses"                                     \* 墨镜

ITEM_SUN_SHIRT == "ultra-thin sun-protective shirt"            \* 极薄防晒衣（预防强冷气房温差）
ITEM_WARMER == "heat pack or thermal underwear"                \* 暖宝宝或发热内衣（湿气会加速体温流失）
ITEM_STRONG_WIND == "[strong-wind advice] avoid loose garments"  \* 【强风加固型建议】避免易兜风衣物…
ITEM_WIND_LAYER == "windproof layer (shell/trench coat)"       \* 防风层（冲锋衣/风衣）
ITEM_HOT_WIND == "[wind vs heat] light windproof outer layer"  \* 【强风vs高温权衡】建议轻薄防风外套…
ITEM_WIND_GLASSES == "windproof sunglasses"                    \* 防风墨镜（预防风沙/强风）
ITEM_UMBRELLA == "folding umbrella/rain gear"                  \* 折叠伞/雨具
ITEM_FOG == "[fog warning] bright or reflective clothing"      \* 【浓雾预警】…

NONE_STR == "none"                                             \* 无
NO_SPECIAL == "no special items"                               \* 无特殊装备
DELIM_ITEMS == ", "                                            \* 、
DELIM_PARTS == "; "                                            \* ；
DAMP_PROOF == "damp-proof"                                     \* 防潮

FMT_HEAD == "based on perceived {real_feel}C."                 \* 基于体感{real_feel}°C判断。
FMT_HEAT_HUMID == "heat-humid sauna ({temp}C, {humidity}%): quick-dry plan, no heavy garments"
FMT_COLD_WET == "cold-wet ({temp}C, {humidity}%): windproof water-repellent plan"
FMT_STRONG_WIND == "level {wind_level} strong wind: reinforced plan, avoid loose garments"
FMT_WIND == "level {wind_level} wind chill: windproof layer added"
FMT_HOT_WIND == "hot and windy ({temperature}C, level {wind_level}): wind protection balanced with cooling"
FMT_RAIN_SHOES == "precipitation {rain_chance}%: professional non-slip rain shoes"
FMT_RAIN_GEAR == "precipitation {rain_chance}%: carry rain gear"
FMT_SUN == "sunny and warm: sun protection added"
FMT_FOG == "extreme humidity ({humidity}%) without rain: fog warning plan"
FMT_DAMP == "extreme humidity ({humidity}%): damp-proof moisture-wicking plan"
SUMMARY_HOT_WIND == " [contradictory weather] hot and windy: light windproof material"
SUMMARY_FOG == " [multi-factor] extreme humidity without rain: fog warning plan"

----------------------------------------------------------------------------
(* Match_Clothing, src/tools.py:306-466 *)

\* step 1, the base layer of the perceived-temperature band (rf in tenths)
BandBase(rf) ==
    IF rf < TEMP_VERY_COLD * 10 THEN BASE_VERY_COLD
    ELSE IF TEMP_VERY_COLD * 10 <= rf /\ rf < TEMP_MILD * 10 THEN BASE_COOL
    ELSE IF TEMP_MILD * 10 <= rf /\ rf < TEMP_WARM * 10 THEN BASE_MILD
    ELSE BASE_WARM

\* mutant of BandAccessories: scarf and gloves also in the band [0,15)
BandAccessoriesCoolToo(rf) ==
    IF rf < TEMP_MILD * 10 THEN <<SCARF, GLOVES>> ELSE <<>>

\* step 1, the accessories of the band
BandAccessories(rf) ==
    IF rf < TEMP_VERY_COLD * 10 THEN <<SCARF, GLOVES>> ELSE <<>>

\* mutant of IsHeatHumid: the humidity compared with the wrong threshold
IsHeatHumidVeryHigh(t, h) == t > TEMP_HOT /\ h > HUMIDITY_VERY_HIGH

\* scenario A condition
IsHeatHumid(t, h) == t > TEMP_HOT /\ h > HUMIDITY_HIGH

\* scenario B condition (reached only when A did not hold)
IsColdWet(t, h) == t < 12 /\ h > HUMIDITY_HIGH

\* mutant of ColdWetBase: the water-repellent prefix forgotten
ColdWetBaseUnprefixed(b) == b

\* scenario B, the base: prefixed unless it names a down coat or a jacket
ColdWetBase(b) ==
    IF ~Contains(b, "down coat") /\ ~Contains(b, "jacket")
    THEN PREFIX_COLD_WET \o b
    ELSE b

\* mutant of HandleWindProtection: the cool branch taken below TEMP_VERY_HOT
HandleWindProtectionVeryHot(b, added, extras, parts, wind_level, t, is_strong_wind) ==
    IF t < TEMP_VERY_HOT
    THEN LET prefixed == ~Contains(b, "windproof")
             b2 == IF prefixed
                   THEN (IF is_strong_wind THEN PREFIX_STRONG_WIND ELSE PREFIX_WIND) \o b
                   ELSE b
             added2 == IF prefixed THEN TRUE ELSE added
         IN IF is_strong_wind
            THEN [base |-> b2, added |-> added2,
                  extras |-> Append(extras, ITEM_STRONG_WIND),
                  parts |-> Append(parts, Clause(FMT_STRONG_WIND, wind_level, 0))]
            ELSE IF ~added2
            THEN [base |-> b2, added |-> added2,
                  extras |-> Append(extras, ITEM_WIND_LAYER),
                  parts |-> Append(parts, Clause(FMT_WIND, wind_level, 0))]
            ELSE [base |-> b2, added |-> added2, extras |-> extras, parts |-> parts]
    ELSE [base |-> b, added |-> added,
          extras |-> extras \o <<ITEM_HOT_WIND, ITEM_WIND_GLASSES>>,
          parts |-> Append(parts, Clause(FMT_HOT_WIND, t, wind_level))]

\* _handle_wind_protection: the new values of the four things it writes
HandleWindProtection(b, added, extras, parts, wind_level, t, is_strong_wind) ==
    IF t < TEMP_HOT
    THEN LET prefixed == ~Contains(b, "windproof")
             b2 == IF prefixed
                   THEN (IF is_strong_wind THEN PREFIX_STRONG_WIND ELSE PREFIX_WIND) \o b
                   ELSE b
             added2 == IF prefixed THEN TRUE ELSE added
         IN IF is_strong_wind
            THEN [base |-> b2, added |-> added2,
                  extras |-> Append(extras, ITEM_STRONG_WIND),
                  parts |-> Append(parts, Clause(FMT_STRONG_WIND, wind_level, 0))]
            ELSE IF ~added2
            THEN [base |-> b2, added |-> added2,
                  extras |-> Append(extras, ITEM_WIND_LAYER),
                  parts |-> Append(parts, Clause(FMT_WIND, wind_level, 0))]
            ELSE [base |-> b2, added |-> added2, extras |-> extras, parts |-> parts]
    ELSE [base |-> b, added |-> added,
          extras |-> extras \o <<ITEM_HOT_WIND, ITEM_WIND_GLASSES>>,
          parts |-> Append(parts, Clause(FMT_HOT_WIND, t, wind_level))]

\* mutant of FootwearFallbackValue: the `footwear == default` guard dropped
FootwearFallbackUnguarded(fw, rain, t) ==
    IF rain > RAIN_CHANCE_EXTREME THEN RAIN_SHOES
    ELSE IF rain > RAIN_CHANCE_HIGH THEN NONSLIP_SHOES
    ELSE IF t < 5 THEN WARM_BOOTS
    ELSE IF t > TEMP_VERY_HOT THEN SANDALS
    ELSE IF t > TEMP_WARM THEN BREATHABLE_SHOES
    ELSE fw

\* step 3, footwear fallback
FootwearFallbackValue(fw, rain, t) ==
    IF fw = DEFAULT_FOOTWEAR
    THEN IF rain > RAIN_CHANCE_EXTREME THEN RAIN_SHOES
         ELSE IF rain > RAIN_CHANCE_HIGH THEN NONSLIP_SHOES
         ELSE IF t < 5 THEN WARM_BOOTS
         ELSE IF t > TEMP_VERY_HOT THEN SANDALS
         ELSE IF t > TEMP_WARM THEN BREATHABLE_SHOES
         ELSE fw
    ELSE fw

\* mutant of SummaryClause: `>` for `>=` on the hot threshold
SummaryClauseStrictlyHot(t, w, h, rain) ==
    IF t > TEMP_HOT /\ w >= WIND_STRONG THEN <<Lit(SUMMARY_HOT_WIND)>>
    ELSE IF h > HUMIDITY_EXTREME /\ rain < RAIN_CHANCE_MODERATE THEN <<Lit(SUMMARY_FOG)>>
    ELSE <<>>

\* step 4, the summary clause appended after the joined clauses
SummaryClause(t, w, h, rain) ==
    IF t >= TEMP_HOT /\ w >= WIND_STRONG THEN <<Lit(SUMMARY_HOT_WIND)>>
    ELSE IF h > HUMIDITY_EXTREME /\ rain < RAIN_CHANCE_MODERATE THEN <<Lit(SUMMARY_FOG)>>
    ELSE <<>>

\* step 5, "、".join(list(set(items))) if items else "无"
ItemsStr(items, seed) ==
    IF items # <<>> THEN Join(ListOfSet(items, seed), DELIM_ITEMS) ELSE <<NONE_STR>>

Locals0 ==
    /\ base = <<>>
    /\ accessories = <<>>
    /\ extra_items = <<>>
    /\ footwear = DEFAULT_FOOTWEAR
    /\ logic_parts = <<>>
    /\ wind_protection_added_to_base = FALSE
    /\ logic_desc = <<>>
    /\ result = <<>>

CalcIdle ==
    /\ cr_pc = "off"
    /\ temperature = 0 /\ wind_speed_kmh = 0 /\ cr_humidity = 0
    /\ cr_real_feel = <<>> /\ wet_cold_factor = <<>> /\ cr_result = <<>>

Init ==
    /\ pc = "base"
    /\ real_feel \in RealFeels
    /\ temp \in TempMaxs
    /\ humidity \in Humidities
    /\ wind \in WindLevels
    /\ rain_chance \in RainChances
    /\ hashSeed \in Seeds
    /\ prev = <<>>
    /\ Locals0
    /\ CalcIdle

args == <<real_feel, temp, humidity, wind, rain_chance>>

SelectBase ==
    /\ pc = "base"
    /\ base' = BandBase(real_feel)
    /\ accessories' = BandAccessories(real_feel)
    /\ pc' = "scenario"
    /\ UNCHANGED <<args, extra_items, footwear, logic_parts,
                   wind_protection_added_to_base, logic_desc, result, hashSeed, prev, crVars>>

ScenarioOverride ==
    /\ pc = "scenario"
    /\ IF IsHeatHumid(temp, humidity)
       THEN /\ base' = BASE_HEAT_HUMID
            /\ extra_items' = Append(extra_items, ITEM_SUN_SHIRT)
            /\ footwear' = SANDALS
            /\ logic_parts' = Append(logic_parts, Clause(FMT_HEAT_HUMID, temp, humidity))
       ELSE IF IsColdWet(temp, humidity)
       THEN /\ base' = ColdWetBase(base)
            /\ extra_items' = Append(extra_items, ITEM_WARMER)
            /\ footwear' = WATERPROOF_BOOTS
            /\ logic_parts' = Append(logic_parts, Clause(FMT_COLD_WET, temp, humidity))
       ELSE UNCHANGED <<base, extra_items, footwear, logic_parts>>
    /\ wind_protection_added_to_base' = FALSE
    /\ pc' = "wind"
    /\ UNCHANGED <<args, accessories, logic_desc, result, hashSeed, prev, crVars>>

\* mutant of WindProtection: the `elif wind >= WIND_STRONG` call dropped
WindProtectionStrongOnly ==
    /\ pc = "wind"
    /\ IF wind >= WIND_VERY_STRONG
       THEN LET r == HandleWindProtection(base, wind_protection_added_to_base,
                        extra_items, logic_parts, wind, temp, TRUE)
            IN /\ base' = r.base
               /\ wind_protection_added_to_base' = r.added
               /\ extra_items' = r.extras
               /\ logic_parts' = r.parts
       ELSE UNCHANGED <<base, wind_protection_added_to_base, extra_items, logic_parts>>
    /\ pc' = "rain"
    /\ UNCHANGED <<args, accessories, footwear, logic_desc, result, hashSeed, prev, crVars>>

WindProtection ==
    /\ pc = "wind"
    /\ IF wind >= WIND_STRONG
       THEN LET r == HandleWindProtection(base, wind_protection_added_to_base,
                        extra_items, logic_parts, wind, temp, wind >= WIND_VERY_STRONG)
            IN /\ base' = r.base
               /\ wind_protection_added_to_base' = r.added
               /\ extra_items' = r.extras
               /\ logic_parts' = r.parts
       ELSE UNCHANGED <<base, wind_protection_added_to_base, extra_items, logic_parts>>
    /\ pc' = "rain"
    /\ UNCHANGED <<args, accessories, footwear, logic_desc, result, hashSeed, prev, crVars>>

Precipitation ==
    /\ pc = "rain"
    /\ IF rain_chance > RAIN_CHANCE_HIGH
       THEN /\ extra_items' = Append(extra_items, ITEM_UMBRELLA)
            /\ IF rain_chance > RAIN_CHANCE_EXTREME
               THEN /\ footwear' = RAIN_SHOES
                    /\ logic_parts' = Append(logic_parts, Clause(FMT_RAIN_SHOES, rain_chance, 0))
               ELSE /\ footwear' = footwear
                    /\ logic_parts' = Append(logic_parts, Clause(FMT_RAIN_GEAR, rain_chance, 0))
       ELSE UNCHANGED <<extra_items, footwear, logic_parts>>
    /\ pc' = "sun"
    /\ UNCHANGED <<args, base, accessories, wind_protection_added_to_base,
                   logic_desc, result, hashSeed, prev, crVars>>

SunProtection ==
    /\ pc = "sun"
    /\ IF temp > 20 /\ rain_chance < RAIN_CHANCE_MODERATE
       THEN LET a1 == IF ~InList(accessories, SUNSCREEN)
                      THEN Append(accessories, SUNSCREEN) ELSE accessories
                a2 == IF temp >= TEMP_WARM THEN a1 \o <<SUN_HAT, SUNGLASSES>> ELSE a1
            IN /\ accessories' = a2
               /\ logic_parts' = Append(logic_parts, Lit(FMT_SUN))
       ELSE UNCHANGED <<accessories, logic_parts>>
    /\ pc' = "shoes"
    /\ UNCHANGED <<args, base, extra_items, footwear, wind_protection_added_to_base,
                   logic_desc, result, hashSeed, prev, crVars>>

FootwearFallback ==
    /\ pc = "shoes"
    /\ footwear' = FootwearFallbackValue(footwear, rain_chance, temp)
    /\ pc' = "fog"
    /\ UNCHANGED <<args, base, accessories, extra_items, logic_parts,
                   wind_protection_added_to_base, logic_desc, result, hashSeed, prev, crVars>>

FogHumidity ==
    /\ pc = "fog"
    /\ IF humidity > HUMIDITY_EXTREME /\ rain_chance < RAIN_CHANCE_MODERATE
       THEN /\ extra_items' = Append(extra_items, ITEM_FOG)
            /\ logic_parts' = Append(logic_parts, Clause(FMT_FOG, humidity, 0))
       ELSE IF humidity > HUMIDITY_VERY_HIGH /\ rain_chance < RAIN_CHANCE_VERY_HIGH
       THEN /\ extra_items' = extra_items
            /\ logic_parts' = IF ~Contains(Join(extra_items, " "), DAMP_PROOF)
                              THEN Append(logic_parts, Clause(FMT_DAMP, humidity, 0))
                              ELSE logic_parts
       ELSE UNCHANGED <<extra_items, logic_parts>>
    /\ pc' = "logic"
    /\ UNCHANGED <<args, base, accessories, footwear, wind_protection_added_to_base,
                   logic_desc, result, hashSeed, prev, crVars>>

BuildLogic ==
    /\ pc = "logic"
    /\ logic_desc' = <<Clause(FMT_HEAD, real_feel, 0)>>
                     \o (IF logic_parts # <<>>
                         THEN <<Lit(" ")>> \o Join(logic_parts, Lit(DELIM_PARTS))
                         ELSE <<>>)
                     \o SummaryClause(temp, wind, humidity, rain_chance)
    /\ pc' = "output"
    /\ UNCHANGED <<args, base, accessories, extra_items, footwear, logic_parts,
                   wind_protection_added_to_base, result, hashSeed, prev, crVars>>

Summarize ==
    /\ pc = "output"
    /\ LET accessories_str == ItemsStr(accessories, hashSeed)
           extra_items_str == ItemsStr(extra_items, hashSeed)
       IN result' = << [clothing_base |-> base,
                        base_clothing |-> base,
                        accessories |-> accessories_str,
                        extra_items |-> extra_items_str,
                        footwear |-> footwear,
                        logic |-> logic_desc,
                        logic_summary |-> logic_desc,
                        protection_layer |-> extra_items_str,
                        protection_tips |-> logic_parts,
                        clothing |-> base,
                        special_items |-> IF accessories_str # <<NONE_STR>>
                                          THEN accessories_str ELSE <<NO_SPECIAL>>,
                        special_items_list |-> accessories] >>
    /\ pc' = "done"
    /\ UNCHANGED <<args, base, accessories, extra_items, footwear, logic_parts,
                   wind_protection_added_to_base, logic_desc, hashSeed, prev, crVars>>

Next ==
    \/ SelectBase
    \/ ScenarioOverride
    \/ WindProtection
    \/ Precipitation
    \/ SunProtection
    \/ FootwearFallback
    \/ FogHumidity
    \/ BuildLogic
    \/ Summarize

Spec == Init /\ [][Next]_vars

----------------------------------------------------------------------------
(* Calc_RealFeel, src/tools.py:258-303                                     *)
(*                                                                         *)
(* The arguments are t (tenths of a degree), w (tenths of km/h) and h.     *)
(* The perceived temperature before rounding is irrational when the wind   *)
(* term is, so it is kept exactly, in tenths of a degree, as               *)
(*      (num - coef * sqrt(rad)) / scale                                   *)
(* with integer num, coef >= 0, rad >= 0, scale > 0.  With T = t/10 and    *)
(* W = max(0, w)/10 = rad/100 (rad = 10 * max(0, w)):                      *)
(*   T <= 10 :  10*(T - 2*sqrt(W))            = t - 2*sqrt(rad)            *)
(*   T >= 25 :  10*(T + (h-50)*0.1)           = t + (h-50)                 *)
(*   else    :  10*(T - (25-T)/15*1.5*sqrt(W)/5 + (T-10)/15*(h-50)*0.05)   *)
(*                = t - (250-t)*sqrt(rad)/500 + (t-100)*(h-50)/300         *)
(*   wet cold:  10*((h-70)/30*(15-T)/5*2)     = (h-70)*(150-t)/75          *)
(***************************************************************************)

CalcTemperatures == {-50, 30, 95, 100, 101, 102, 130, 140, 145, 149, 150, 200, 249, 250, 300}
CalcWindSpeeds == {-10, 0, 10, 30, 200}
CalcHumidities == {0, 50, 60, 70, 71, 85, 100}

RECURSIVE SqrtSearch(_, _, _)
\* the largest r in lo..hi with r*r <= n
SqrtSearch(n, lo, hi) ==
    IF lo = hi THEN lo
    ELSE LET mid == (lo + hi + 1) \div 2
         IN IF mid * mid <= n THEN SqrtSearch(n, mid, hi) ELSE SqrtSearch(n, lo, mid - 1)

FloorSqrt(n) == SqrtSearch(n, 0, 46340)
IsSquare(n) == FloorSqrt(n) * FloorSqrt(n) = n
CeilSqrt(n) == IF IsSquare(n) THEN FloorSqrt(n) ELSE FloorSqrt(n) + 1

\* max(0, wind_speed_kmh), as the radicand 10 * w
Radicand(w) == 10 * (IF w > 0 THEN w ELSE 0)

\* branch 1, temperature <= 10: temperature - 2 * sqrt(wind)
WindChillValue(t, w) ==
    [scale |-> 150, num |-> 150 * t, coef |-> 300, rad |-> Radicand(w)]

\* branch 2, temperature >= TEMP_WARM: temperature + (humidity - 50) * 0.1
HumidHeatValue(t, h) ==
    [scale |-> 150, num |-> 150 * (t + (h - 50)), coef |-> 0, rad |-> 0]

\* branch 3, between: temperature - wind_factor + humidity_factor
BlendValue(t, w, h) ==
    [scale |-> 3000,
     num |-> 3000 * t + 10 * (t - 100) * (h - 50),
     coef |-> 6 * (TEMP_WARM * 10 - t),
     rad |-> Radicand(w)]

\* mutant of WetColdApplies: the humidity condition dropped
WetColdAppliesAnyHumidity(t, h) == t < TEMP_MILD * 10

\* the wet-cold correction applies
WetColdApplies(t, h) == t < TEMP_MILD * 10 /\ h > HUMIDITY_HIGH

\* wet_cold_factor, in 1/75 of a tenth of a degree
WetColdFactor(t, h) == (h - 70) * (150 - t)

\* real_feel -= wet_cold_factor
SubtractFactor(v, f) == [v EXCEPT !.num = @ - (v.scale \div 75) * f]

\* round(real_feel, 1), in tenths.  A value exactly half-way between two
\* tenths is decided by the binary floating-point value the interpreter
\* computed, which lies on either side: both neighbours are outcomes.
RoundOutcomes(v) ==
    LET c2r == v.coef * v.coef * v.rad
        floorScaled == v.num - CeilSqrt(c2r)       \* floor(num - coef*sqrt(rad))
        half == v.scale \div 2
        up == (floorScaled + half) \div v.scale
        tie == IsSquare(c2r) /\ (floorScaled + half) % v.scale = 0
    IN IF tie THEN {up - 1, up} ELSE {up}

\* the value before the correction, by the branch of the temperature
BranchValue(t, w, h) ==
    IF t <= 100 THEN WindChillValue(t, w)
    ELSE IF t >= TEMP_WARM * 10 THEN HumidHeatValue(t, h)
    ELSE BlendValue(t, w, h)

\* the values Calc_RealFeel(t, w, h) may return
CalcRealFeelOutcomes(t, w, h) ==
    RoundOutcomes(IF WetColdApplies(t, h)
                  THEN SubtractFactor(BranchValue(t, w, h), WetColdFactor(t, h))
                  ELSE BranchValue(t, w, h))

MatchIdle ==
    /\ pc = "off"
    /\ real_feel = 0 /\ temp = 0 /\ humidity = 0 /\ wind = 0 /\ rain_chance = 0
    /\ hashSeed = 0
    /\ prev = <<>>
    /\ Locals0

InitRealFeel ==
    /\ cr_pc = "branch"
    /\ temperature \in CalcTemperatures
    /\ wind_speed_kmh \in CalcWindSpeeds
    /\ cr_humidity \in CalcHumidities
    /\ cr_real_feel = <<>>
    /\ wet_cold_factor = <<>>
    /\ cr_result = <<>>
    /\ MatchIdle

crArgs == <<temperature, wind_speed_kmh, cr_humidity>>

LowTempBranch ==
    /\ cr_pc = "branch"
    /\ temperature <= 100
    /\ cr_real_feel' = <<WindChillValue(temperature, wind_speed_kmh)>>
    /\ cr_pc' = "wetcold"
    /\ UNCHANGED <<crArgs, wet_cold_factor, cr_result, mcVars>>

HighTempBranch ==
    /\ cr_pc = "branch"
    /\ ~(temperature <= 100)
    /\ temperature >= TEMP_WARM * 10
    /\ cr_real_feel' = <<HumidHeatValue(temperature, cr_humidity)>>
    /\ cr_pc' = "wetcold"
    /\ UNCHANGED <<crArgs, wet_cold_factor, cr_result, mcVars>>

BlendBranch ==
    /\ cr_pc = "branch"
    /\ ~(temperature <= 100)
    /\ ~(temperature >= TEMP_WARM * 10)
    /\ cr_real_feel' = <<BlendValue(temperature, wind_speed_kmh, cr_humidity)>>
    /\ cr_pc' = "wetcold"
    /\ UNCHANGED <<crArgs, wet_cold_factor, cr_result, mcVars>>

WetColdCorrection ==
    /\ cr_pc = "wetcold"
    /\ IF WetColdApplies(temperature, cr_humidity)
       THEN /\ wet_cold_factor' = <<WetColdFactor(temperature, cr_humidity)>>
            /\ cr_real_feel' = <<SubtractFactor(cr_real_feel[1],
                                               WetColdFactor(temperature, cr_humidity))>>
       ELSE UNCHANGED <<wet_cold_factor, cr_real_feel>>
    /\ cr_pc' = "round"
    /\ UNCHANGED <<crArgs, cr_result, mcVars>>

RoundResult ==
    /\ cr_pc = "round"
    /\ \E k \in RoundOutcomes(cr_real_feel[1]) : cr_result' = <<k>>
    /\ cr_pc' = "done"
    /\ UNCHANGED <<crArgs, cr_real_feel, wet_cold_factor, mcVars>>

NextRealFeel ==
    \/ LowTempBranch
    \/ HighTempBranch
    \/ BlendBranch
    \/ WetColdCorrection
    \/ RoundResult

SpecRealFeel == InitRealFeel /\ [][NextRealFeel]_vars

----------------------------------------------------------------------------
(* Repeated calls.  The agent may call the tool again with the same        *)
(* arguments, in the same interpreter or (the example script run anew) in  *)
(* a fresh one, whose string-hash seed is drawn again.                     *)

Recall ==
    /\ prev' = result
    /\ pc' = "base"
    /\ base' = <<>>
    /\ accessories' = <<>>
    /\ extra_items' = <<>>
    /\ footwear' = DEFAULT_FOOTWEAR
    /\ logic_parts' = <<>>
    /\ wind_protection_added_to_base' = FALSE
    /\ logic_desc' = <<>>
    /\ result' = <<>>
    /\ UNCHANGED <<args, crVars>>

CallAgain ==
    /\ pc = "done"
    /\ Recall
    /\ hashSeed' = hashSeed

CallInNewProcess ==
    /\ pc = "done"
    /\ Recall
    /\ hashSeed' \in Seeds

NextRepeat ==
    \/ Next
    \/ CallAgain
    \/ CallInNewProcess

SpecRepeat == Init /\ [][NextRepeat]_vars

----------------------------------------------------------------------------
(* Properties of Match_Clothing *)

Returned == pc = "done"
R == result[1]
HeatHumidInput == temp > 27 /\ humidity > 70
ColdWetInput == temp < 12 /\ humidity > 70
SunInput == temp > 20 /\ rain_chance < 20
HasClause(parts, fmt) == \E i \in DOMAIN parts : parts[i][1] = fmt
StartsWith(s, prefix) ==
    Len(s) >= Len(prefix) /\ SubSeq(s, 1, Len(prefix)) = prefix

\* The footwear the claim C1 gives as reference
ReferenceFootwear ==
    IF rain_chance > 70 THEN RAIN_SHOES
    ELSE IF HeatHumidInput THEN SANDALS
    ELSE IF ColdWetInput THEN WATERPROOF_BOOTS
    ELSE IF rain_chance > 40 THEN NONSLIP_SHOES
    ELSE IF temp < 5 THEN WARM_BOOTS
    ELSE IF temp > 30 THEN SANDALS
    ELSE IF temp > 25 THEN BREATHABLE_SHOES
    ELSE DEFAULT_FOOTWEAR

\* C1: for every input the returned footwear equals the reference: rain
\* footwear above 70 % precipitation, else the footwear of the override that
\* fired, else the fallback priority list; the fallback never replaces a
\* footwear an override has set.
C1_FootwearReference ==
    Returned => R.footwear = ReferenceFootwear

\* C1 witness: the cold-wet override set the footwear and the fallback's
\* second rule (precipitation > 40) would have replaced it
C1_Witness ==
    /\ Returned /\ ColdWetInput
    /\ rain_chance > 40 /\ rain_chance <= 70
    /\ R.footwear = WATERPROOF_BOOTS

\* C4 as claimed: whenever the sun rule does not fire the returned
\* accessories are empty, whatever the perceived temperature.
C4_NoAccessoriesWithoutSun ==
    (Returned /\ ~SunInput) =>
        (R.accessories = <<NONE_STR>> /\ R.special_items_list = <<>>)

\* C4 amended: when the sun rule does not fire, the accessories are empty in
\* the three bands from 0 degrees up, and are exactly scarf and gloves in the
\* band below 0 degrees, which step 1 assigns.
C4_AccessoriesOnlyBelowZero ==
    (Returned /\ ~SunInput) =>
        /\ real_feel >= 0 =>
              (R.accessories = <<NONE_STR>> /\ R.special_items_list = <<>>)
        /\ real_feel < 0 =>
              /\ R.special_items_list = <<SCARF, GLOVES>>
              /\ R.accessories \in {<<SCARF, DELIM_ITEMS, GLOVES>>,
                                    <<GLOVES, DELIM_ITEMS, SCARF>>}

\* C4 witness: a call below 0 degrees in which the sun rule did not fire
C4_Witness ==
    Returned /\ ~SunInput /\ real_feel < 0 /\ R.special_items_list # <<>>

HeatHumidBase == R.clothing_base = BASE_HEAT_HUMID
HeatHumidItem == InList(R.extra_items, ITEM_SUN_SHIRT)
HeatHumidClause == HasClause(R.protection_tips, FMT_HEAT_HUMID)
ColdWetItem == InList(R.extra_items, ITEM_WARMER)
ColdWetClause == HasClause(R.protection_tips, FMT_COLD_WET)
ColdWetPrefix == Contains(R.clothing_base, PREFIX_COLD_WET[2])

\* C5: no call shows effects of both the heat-humid and the cold-wet
\* override; with tempMax > 27 and humidity > 70 all heat-humid effects are
\* present and no cold-wet effect is.
C5_OverridesExclusive ==
    Returned =>
        /\ ~( (HeatHumidBase \/ HeatHumidItem \/ HeatHumidClause)
              /\ (ColdWetItem \/ ColdWetClause \/ ColdWetPrefix) )
        /\ HeatHumidInput =>
              /\ HeatHumidBase /\ HeatHumidItem /\ HeatHumidClause
              /\ ~ColdWetItem /\ ~ColdWetClause /\ ~ColdWetPrefix

\* C5 witness: a heat-humid call returned
C5_Witness ==
    Returned /\ HeatHumidInput /\ HeatHumidBase /\ HeatHumidItem

\* C6 as claimed: when the cold-wet override fires and windLevel >= 7 the
\* returned base starts with the strong-wind reinforced outer layer.
C6_StrongWindPrefixesColdWet ==
    (Returned /\ ColdWetInput /\ wind >= 7) =>
        StartsWith(R.clothing_base, PREFIX_STRONG_WIND)

\* C6 amended: when the cold-wet override fires and windLevel >= 7 the base
\* already mentions wind protection, so the strong-wind step leaves it as the
\* cold-wet step made it (the band base, prefixed with the water-repellent
\* coat in the two bands from 15 degrees up) and only adds the strong-wind
\* item and rationale clause.
C6_StrongWindKeepsColdWetBase ==
    (Returned /\ ColdWetInput /\ wind >= 7) =>
        /\ ~StartsWith(R.clothing_base, PREFIX_STRONG_WIND)
        /\ R.clothing_base =
              (IF real_feel < 0 THEN BASE_VERY_COLD
               ELSE IF real_feel < 150 THEN BASE_COOL
               ELSE IF real_feel < 250 THEN PREFIX_COLD_WET \o BASE_MILD
               ELSE PREFIX_COLD_WET \o BASE_WARM)
        /\ InList(R.extra_items, ITEM_STRONG_WIND)
        /\ HasClause(R.protection_tips, FMT_STRONG_WIND)
        /\ ColdWetClause

\* C6 witness: the scenario of the claim, in a band where cold-wet prefixes
C6_Witness ==
    /\ Returned /\ temp = 8 /\ humidity = 88 /\ wind = 8 /\ rain_chance = 60
    /\ real_feel >= 150
    /\ StartsWith(R.clothing_base, PREFIX_COLD_WET)

\* C7 as claimed: a call with the arguments of the previous call returns a
\* result identical to it in every field, the joined accessories and
\* extra-items strings included.
C7_RepeatedCallIdentical ==
    (Returned /\ prev # <<>>) => result = prev

\* C8 as claimed: in the moderate wind tier with tempMax < 27 the returned
\* recommendation never has both a base that mentions wind protection and
\* the generic windproof-layer item among the extra items.
C8_NoDuplicateWindLayer ==
    (Returned /\ wind >= 4 /\ wind < 7 /\ temp < 27) =>
        ~( Contains(R.clothing_base, "windproof")
           /\ InList(R.extra_items, ITEM_WIND_LAYER) )

HotWindyInput == temp >= 27 /\ wind >= 4
FogInput == humidity > 90 /\ rain_chance < 20
IsSummary(c) == c \in {Lit(SUMMARY_HOT_WIND), Lit(SUMMARY_FOG)}
Last(s) == s[Len(s)]
\* position of the first clause of the rationale with this format, 0 if none
ClausePos(d, fmt) ==
    IF \E i \in DOMAIN d : d[i][1] = fmt
    THEN CHOOSE i \in DOMAIN d : d[i][1] = fmt /\ \A j \in 1 .. (i - 1) : d[j][1] # fmt
    ELSE 0

\* C9: the rationale holds at most one summary clause, as its last clause:
\* the hot-windy summary exactly when tempMax >= 27 and windLevel >= 4, the
\* fog summary exactly when that does not hold and humidity > 90 and
\* precipitation < 20; the matching per-scenario clause is among the
\* collected clauses and stands before the summary.
C9_SummaryClause ==
    Returned =>
        LET d == R.logic IN
        /\ Cardinality({i \in DOMAIN d : IsSummary(d[i])}) <= 1
        /\ \A i \in DOMAIN d : IsSummary(d[i]) => i = Len(d)
        /\ (Last(d) = Lit(SUMMARY_HOT_WIND)) <=> HotWindyInput
        /\ (Last(d) = Lit(SUMMARY_FOG)) <=> (~HotWindyInput /\ FogInput)
        /\ Last(d) = Lit(SUMMARY_HOT_WIND) =>
              /\ HasClause(R.protection_tips, FMT_HOT_WIND)
              /\ ClausePos(d, FMT_HOT_WIND) \in 1 .. (Len(d) - 1)
        /\ Last(d) = Lit(SUMMARY_FOG) =>
              /\ HasClause(R.protection_tips, FMT_FOG)
              /\ ClausePos(d, FMT_FOG) \in 1 .. (Len(d) - 1)

\* C9 witness: both contradictions hold and the hot-windy summary was chosen
C9_Witness ==
    /\ Returned /\ HotWindyInput /\ FogInput
    /\ Last(R.logic) = Lit(SUMMARY_HOT_WIND)
    /\ HasClause(R.protection_tips, FMT_FOG)

\* C10: once the heat-humid override has fired, the base is exactly the
\* breathable description at every later step and in all three base fields
\* of the returned record, for every perceived temperature, wind level and
\* precipitation.
C10_HeatHumidBaseKept ==
    HeatHumidInput =>
        /\ pc \notin {"base", "scenario"} => base = BASE_HEAT_HUMID
        /\ Returned => /\ R.clothing_base = BASE_HEAT_HUMID
                       /\ R.base_clothing = BASE_HEAT_HUMID
                       /\ R.clothing = BASE_HEAT_HUMID

\* C10 witness: a heat-humid call with strong wind, rain and fog steps run
C10_Witness ==
    /\ Returned /\ HeatHumidInput /\ wind >= 7 /\ humidity > 90
    /\ R.clothing_base = BASE_HEAT_HUMID
    /\ InList(R.extra_items, ITEM_WIND_GLASSES)

\* C11: for every input with windLevel >= 4 and tempMax < 27 the base
\* mentions wind protection (holds the windproof term) once the wind step has
\* run, at every later step and in all three base fields of the returned
\* record, whichever band chose the base and whether or not the cold-wet
\* override ran before the wind step.
C11_WindyCoolBaseWindproof ==
    (wind >= 4 /\ temp < 27) =>
        /\ pc \in {"rain", "sun", "shoes", "fog", "logic", "output", "done"} =>
              Contains(base, "windproof")
        /\ Returned => /\ Contains(R.clothing_base, "windproof")
                       /\ Contains(R.base_clothing, "windproof")
                       /\ Contains(R.clothing, "windproof")

\* C11 witness: a moderate-wind call in a band whose base has no windproof
\* term and without the cold-wet override: the wind step supplied the term
C11_Witness ==
    /\ Returned /\ wind >= 4 /\ wind < 7 /\ temp < 27
    /\ real_feel >= 150 /\ ~ColdWetInput
    /\ StartsWith(R.clothing_base, PREFIX_WIND)

----------------------------------------------------------------------------
(* Properties of Calc_RealFeel *)

Computed == cr_pc = "done"

\* C2 as claimed: for temperature < 15 and humidity > 70 the returned value
\* is strictly lower than the value returned for the same temperature and
\* wind speed with humidity = 70; and for temperature >= 15 or humidity <= 70
\* no wet-cold term is subtracted.
C2_WetColdStrictlyLower ==
    Computed =>
        /\ (temperature < 150 /\ cr_humidity > 70) =>
              \A at70 \in CalcRealFeelOutcomes(temperature, wind_speed_kmh, 70) :
                  cr_result[1] < at70
        /\ (temperature >= 150 \/ cr_humidity <= 70) => wet_cold_factor = <<>>

\* C3 as claimed: for temperature <= 10, wind speed 0 and every humidity in
\* [0,100] the returned value equals the temperature.
C3_CalmColdEqualsTemperature ==
    (Computed /\ temperature <= 100 /\ wind_speed_kmh = 0
        /\ cr_humidity \in 0 .. 100) =>
        cr_result[1] = temperature

\* C3 amended: for temperature <= 10 and wind speed 0 the returned value
\* equals the temperature for every humidity in [0,70]; for humidity in
\* (70,100] it is the temperature less the wet-cold term
\* (humidity-70)/30 * (15-temperature)/5 * 2, rounded to one decimal, and so
\* never above the temperature.
C3_CalmColdEqualsUpToHumidity70 ==
    (Computed /\ temperature <= 100 /\ wind_speed_kmh = 0
        /\ cr_humidity \in 0 .. 100) =>
        /\ cr_humidity <= 70 => cr_result[1] = temperature
        /\ cr_humidity > 70 =>
              LET twice == 150 * (temperature - cr_result[1])
                           - 2 * (cr_humidity - 70) * (150 - temperature)
              IN /\ twice >= -75 /\ twice <= 75
                 /\ cr_result[1] <= temperature

\* C3 witness: a calm cold call at humidity 70, the last humidity for which
\* the result is the temperature
C3_Witness ==
    /\ Computed /\ temperature <= 100 /\ wind_speed_kmh = 0
    /\ cr_humidity = 70 /\ cr_result = <<temperature>>

====
